---- MODULE Spec2Model ----
(***************************************************************************)
(* Model of scripts/add_token.py: the token registrar command.  A run of   *)
(* main() obtains an address, validates it, checks the RPC connection,     *)
(* reads name/symbol/decimals from the token contract, locates the         *)
(* registry root (mainnet/) and creates <root>/<symbol>/data.json.         *)
(*                                                                         *)
(* Strings that the code inspects character by character (addresses,       *)
(* symbols) are sequences of one-character strings.  A file name is a      *)
(* sequence of such tokens too; fixed names ("mainnet", "data.json") are   *)
(* written as one token.  A path is a sequence of names from the root.     *)
(***************************************************************************)
EXTENDS Integers, Sequences, FiniteSets, TLC

(* ------------------------------ bounds -------------------------------- *)

\* Number of hex digits of an address (40 in Ethereum, scaled down).
AddrLen == 2

\* Longest symbol string the contract reports in the model.
MaxSymLen == 3

(* --------------------------- program constants ------------------------ *)

CHAIN_ID == 143

(* ------------------------------ strings ------------------------------- *)

RECURSIVE StringsUpTo(_, _)
StringsUpTo(alphabet, n) ==
    IF n = 0 THEN {<<>>}
    ELSE LET shorter == StringsUpTo(alphabet, n - 1)
         IN  shorter \cup {Append(s, c) : s \in shorter, c \in alphabet}

Tail2(s) == SubSeq(s, 3, Len(s))

LowerChars == {"a", "g", "x"}
UpperChars == {"A", "G", "X"}
DigitChars == {"0"}
HexChars == {"0", "a", "A"}

ToLowerChar(c) ==
    CASE c = "A" -> "a"
      [] c = "G" -> "g"
      [] c = "X" -> "x"
      [] OTHER -> c

ToUpperChar(c) ==
    CASE c = "a" -> "A"
      [] c = "g" -> "G"
      [] c = "x" -> "X"
      [] OTHER -> c

\* str.lower()
Lower(s) == [i \in 1..Len(s) |-> ToLowerChar(s[i])]

\* str.islower(): at least one cased character and no uppercase one.
IsLower(s) ==
    /\ \E i \in 1..Len(s) : s[i] \in LowerChars
    /\ \A i \in 1..Len(s) : s[i] \notin UpperChars

\* str.isupper()
IsUpper(s) ==
    /\ \E i \in 1..Len(s) : s[i] \in UpperChars
    /\ \A i \in 1..Len(s) : s[i] \notin LowerChars

\* str.isnumeric()
IsNumeric(s) == Len(s) > 0 /\ \A i \in 1..Len(s) : s[i] \in DigitChars

RECURSIVE LStrip(_)
LStrip(s) == IF Len(s) > 0 /\ Head(s) = " " THEN LStrip(Tail(s)) ELSE s

RECURSIVE RStrip(_)
RStrip(s) ==
    IF Len(s) > 0 /\ s[Len(s)] = " " THEN RStrip(SubSeq(s, 1, Len(s) - 1)) ELSE s

\* str.strip()
Strip(s) == RStrip(LStrip(s))

(* ------------------- Web3.is_address / to_checksum_address ------------- *)
(* validate_address delegates to web3 (eth_utils):                         *)
(*   is_hex_address: fullmatch of (0x)?[0-9a-f]{40}, ignoring case;        *)
(*   is_address: a hex address that, when written in mixed case, equals    *)
(*   its checksummed form;                                                 *)
(*   to_checksum_address: "0x" + lower-case digits, each letter upper-     *)
(*   cased where the keccak digest of the lower-case digits says so.       *)

Is0xPrefixed(s) == Len(s) >= 2 /\ s[1] = "0" /\ s[2] \in {"x", "X"}

Remove0xPrefix(s) == IF Is0xPrefixed(s) THEN Tail2(s) ELSE s

AllHex(s) == \A i \in 1..Len(s) : s[i] \in HexChars

\* Mutant: the number of digits is not checked.
IsHexAddress_AnyLength(s) == AllHex(Remove0xPrefix(s))

IsHexAddress(s) ==
    \/ Len(s) = AddrLen /\ AllHex(s)
    \/ Is0xPrefixed(s) /\ Len(Tail2(s)) = AddrLen /\ AllHex(Tail2(s))

IsChecksumFormatted(s) ==
    LET u == Remove0xPrefix(s)
    IN  ~IsLower(u) /\ ~IsUpper(u) /\ ~IsNumeric(u)

ToNormalizedAddress(s) == <<"0", "x">> \o Lower(Remove0xPrefix(s))

\* Stand-in for the keccak digest nibble of position i being >= 8: a fixed
\* function of the lower-case digits and the position.
DigestHigh(digits, i) == (i + Len(digits)) % 2 = 1

ToChecksumAddress(s) ==
    LET digits == Tail2(ToNormalizedAddress(s))
    IN  <<"0", "x">> \o
          [i \in 1..Len(digits) |->
             IF DigestHigh(digits, i) THEN ToUpperChar(digits[i]) ELSE digits[i]]

IsChecksumAddress(s) == IsHexAddress(s) /\ s = ToChecksumAddress(s)

IsAddress(s) ==
    IsHexAddress(s) /\ (IsChecksumFormatted(s) => IsChecksumAddress(s))

\* validate_address: the checksummed address, or ValueError.
validate_address(address) ==
    IF ~IsAddress(address)
    THEN [ok |-> FALSE, exc |-> "ValueError", value |-> <<>>]
    ELSE [ok |-> TRUE, exc |-> "none", value |-> ToChecksumAddress(address)]

(* ------------------------------ pathlib -------------------------------- *)

Nm(token) == <<token>>
DotDot == <<".", ".">>
Dot == <<".">>

\* The components of a string split on "/".
RECURSIVE SplitOnSlash(_, _, _)
SplitOnSlash(s, cur, acc) ==
    IF s = <<>> THEN Append(acc, cur)
    ELSE IF Head(s) = "/" THEN SplitOnSlash(Tail(s), <<>>, Append(acc, cur))
    ELSE SplitOnSlash(Tail(s), Append(cur, Head(s)), acc)

\* PurePosixPath parsing: empty components and "." are dropped, ".." is kept.
PathParts(s) ==
    SelectSeq(SplitOnSlash(s, <<>>, <<>>), LAMBDA n : n # <<>> /\ n # Dot)

IsAbsoluteString(s) == Len(s) > 0 /\ s[1] = "/"

\* Mutant: the symbol's components are appended as they are split.
JoinPath_KeepsEmptyParts(base, s) == base \o SplitOnSlash(s, <<>>, <<>>)

\* base / s  (Path.__truediv__): an absolute right operand replaces the base.
JoinPath(base, s) ==
    IF IsAbsoluteString(s) THEN PathParts(s) ELSE base \o PathParts(s)

\* Path.parent: the path without its last part; the root is its own parent.
Parent(path) == IF path = <<>> THEN <<>> ELSE SubSeq(path, 1, Len(path) - 1)

(* ----------------------------- file system ---------------------------- *)
(* dirs: the directories, files: the regular files with their content,    *)
(* both keyed by the canonical path (no "..").  No symbolic links.        *)

IsDirNode(f, c) == c \in f.dirs
IsFileNode(f, c) == c \in DOMAIN f.files
NodeExists(f, c) == IsDirNode(f, c) \/ IsFileNode(f, c)

\* Kernel path resolution of the parts after cur: every component that is
\* walked through must be a directory; the last one need not exist.
RECURSIVE Resolve(_, _, _)
Resolve(f, cur, parts) ==
    IF parts = <<>> THEN [err |-> "none", path |-> cur]
    ELSE IF IsFileNode(f, cur) THEN [err |-> "ENOTDIR", path |-> cur]
    ELSE IF ~IsDirNode(f, cur) THEN [err |-> "ENOENT", path |-> cur]
    ELSE Resolve(f, IF Head(parts) = DotDot THEN Parent(cur)
                    ELSE Append(cur, Head(parts)), Tail(parts))

\* Path.exists()
Exists(f, path) ==
    LET r == Resolve(f, <<>>, path)
    IN  r.err = "none" /\ NodeExists(f, r.path)

\* Path.is_dir()
IsDir(f, path) ==
    LET r == Resolve(f, <<>>, path)
    IN  r.err = "none" /\ IsDirNode(f, r.path)

ErrnoException(err) ==
    CASE err = "ENOENT" -> "FileNotFoundError"
      [] err = "ENOTDIR" -> "NotADirectoryError"
      [] err = "EEXIST" -> "FileExistsError"
      [] err = "EISDIR" -> "IsADirectoryError"
      [] OTHER -> "OSError"

\* os.mkdir(path): one system call.
OsMkdir(f, path) ==
    LET r == Resolve(f, <<>>, path)
    IN  IF r.err # "none" THEN [err |-> r.err, fs |-> f, made |-> <<>>]
        ELSE IF NodeExists(f, r.path) THEN [err |-> "EEXIST", fs |-> f, made |-> <<>>]
        ELSE [err |-> "none", fs |-> [f EXCEPT !.dirs = @ \cup {r.path}],
              made |-> <<[op |-> "mkdir", path |-> r.path]>>]

EmptyContent == [body |-> <<>>, nl |-> FALSE]

\* open(path, "w"): creates the file, or truncates the one that is there.
OsOpenW(f, path) ==
    LET r == Resolve(f, <<>>, path)
    IN  IF r.err # "none" THEN [err |-> r.err, fs |-> f, made |-> <<>>]
        ELSE IF IsDirNode(f, r.path) THEN [err |-> "EISDIR", fs |-> f, made |-> <<>>]
        ELSE [err |-> "none",
              fs |-> [f EXCEPT !.files = (r.path :> EmptyContent) @@ f.files],
              made |-> <<[op |-> IF IsFileNode(f, r.path) THEN "truncate" ELSE "create",
                          path |-> r.path]>>]

\* Writing to the open file at canonical path c.
OsWrite(f, c, content) ==
    [f EXCEPT !.files = [x \in DOMAIN f.files |-> IF x = c THEN content ELSE f.files[x]]]

(* ------------------------------ the world ------------------------------ *)

Procs == {"p1", "p2"}

ScriptDir == <<Nm("repo"), Nm("scripts")>>

\* script_dir.parent / "mainnet"
MainnetDir == JoinPath(Parent(ScriptDir), Nm("mainnet"))

DataFileName == Nm("data.json")

TokenName == <<"Example Token">>
TokenDecimals == {18}

\* What the contract at the address can report as its symbol.
SymbolChars == {"A", "/", "."}
Symbols == StringsUpTo(SymbolChars, MaxSymLen)

\* Address strings a user can pass: an optional 0x / 0X prefix and digits.
AddressChars == {"a", "A", "g"}
RawAddresses ==
    {pre \o body : pre \in {<<>>, <<"0", "x">>, <<"0", "X">>},
                   body \in StringsUpTo(AddressChars, AddrLen + 1)}

\* sys.argv: the positional argument is absent (None) or a string.
NoArg == [given |-> FALSE, value |-> <<>>]
ArgvChoices == {NoArg} \cup {[given |-> TRUE, value |-> a] : a \in RawAddresses}

\* Lines typed at the prompt, with blanks around the address.
TypedLines == {<<" ">> \o a \o <<" ">> : a \in RawAddresses}

\* Python truthiness of args.address / address.
Truthy(a) == a.given /\ a.value # <<>>

BaseDirs == {<<>>, Parent(ScriptDir), ScriptDir}

\* An entry registered earlier: mainnet/A/data.json.
OldRecord ==
    [chainId |-> CHAIN_ID, address |-> ToChecksumAddress([i \in 1..AddrLen |-> "0"]),
     name |-> <<"Old Token">>, symbol |-> <<"A">>, decimals |-> 6]
OldContent == [body |-> <<OldRecord>>, nl |-> TRUE]
NoFiles == [c \in {} |-> EmptyContent]

\* The file systems a run can start from: the registry root missing, empty,
\* or holding the entry A (with its data.json) and/or a plain file AA.
InitialFileSystems ==
    {[dirs |-> BaseDirs, files |-> NoFiles]}
    \cup
    {[dirs |-> BaseDirs \cup {MainnetDir}
                 \cup (IF hasA THEN {Append(MainnetDir, <<"A">>)} ELSE {}),
      files |-> (IF hasA
                 THEN Append(Append(MainnetDir, <<"A">>), DataFileName) :> OldContent
                 ELSE NoFiles)
                @@ (IF hasFile
                    THEN Append(MainnetDir, <<"A", "A">>) :> EmptyContent
                    ELSE NoFiles)] :
      hasA \in BOOLEAN, hasFile \in BOOLEAN}

VARIABLES
    fs,          \* the file system
    chain,       \* what the token contract reports: [name, symbol, decimals]
    pc,          \* per invocation: the statement main() is at
    address,     \* per invocation: main's local `address`
    token_data,  \* per invocation: the record being fetched / fetched
    token_dir,   \* per invocation: create_token_directory's token_dir
    mkstack,     \* per invocation: the pending Path.mkdir calls, innermost last
    outcome,     \* per invocation: how the process ended
    trace,       \* history: the steps of main begun, in order
    calls,       \* history: the RPC requests sent, in order
    writes,      \* history: the file-system changes made, in order
    fs0          \* history: the file system when the invocation started

vars == <<fs, chain, pc, address, token_data, token_dir, mkstack, outcome,
          trace, calls, writes, fs0>>

NoData == [chainId |-> 0, address |-> <<>>, name |-> <<>>, symbol |-> <<>>,
           decimals |-> 0]
Running == [status |-> "running", exc |-> "none", handler |-> "none",
            printed |-> "none", exit |-> -1]

Init ==
    /\ fs \in InitialFileSystems
    /\ chain \in [name : {TokenName}, symbol : Symbols, decimals : TokenDecimals]
    /\ pc = [p \in Procs |-> "start"]
    /\ address = [p \in Procs |-> <<>>]
    /\ token_data = [p \in Procs |-> NoData]
    /\ token_dir = [p \in Procs |-> <<>>]
    /\ mkstack = [p \in Procs |-> <<>>]
    /\ outcome = [p \in Procs |-> Running]
    /\ trace = [p \in Procs |-> <<>>]
    /\ calls = [p \in Procs |-> <<>>]
    /\ writes = [p \in Procs |-> <<>>]
    /\ fs0 = [p \in Procs |-> fs]

(* --------------------------- main: the handlers ------------------------ *)

\* The except clause of main's try statement that catches an exception
\* raised inside it, in the order the clauses are written.
Handler(exc) ==
    CASE exc = "ValueError" -> "except ValueError"
      [] exc = "FileNotFoundError" -> "except FileNotFoundError"
      [] exc = "FileExistsError" -> "except FileExistsError"
      [] OTHER -> "except Exception"

\* What the clause prints before it returns 1.
HandlerMessage(handler) ==
    IF handler = "except Exception" THEN "Unexpected error: ..." ELSE "Error: ..."

\* Mutant: the except clauses print the message and return 0.
RaisedInTry_ReturnsZero(exc) ==
    [status |-> "returned", exc |-> exc, handler |-> Handler(exc),
     printed |-> HandlerMessage(Handler(exc)), exit |-> 0]

\* An exception raised inside the try statement: caught, printed, return 1.
RaisedInTry(exc) ==
    [status |-> "returned", exc |-> exc, handler |-> Handler(exc),
     printed |-> HandlerMessage(Handler(exc)), exit |-> 1]

\* An exception raised outside the try statement leaves main; the
\* interpreter prints the traceback and the process exits with status 1.
RaisedOutsideTry(exc) ==
    [status |-> "uncaught", exc |-> exc, handler |-> "none",
     printed |-> "Traceback", exit |-> 1]

\* print(message); return code
Returned(message, code) ==
    [status |-> "returned", exc |-> "none", handler |-> "none",
     printed |-> message, exit |-> code]

\* main is left: sys.exit(main()) ends the process; the local `address` and
\* the pending mkdir calls are gone.
Finish(p, out) ==
    /\ pc' = [pc EXCEPT ![p] = "done"]
    /\ outcome' = [outcome EXCEPT ![p] = out]
    /\ address' = [address EXCEPT ![p] = <<>>]
    /\ mkstack' = [mkstack EXCEPT ![p] = <<>>]

\* main goes on with the statement at `next`.
Goto(p, next) ==
    /\ pc' = [pc EXCEPT ![p] = next]
    /\ UNCHANGED outcome

(* ------------------------------ main: steps ---------------------------- *)

\* parser.parse_args(); address = args.address
ParseArgs(p) ==
    /\ pc[p] = "start"
    /\ \E arg \in ArgvChoices :
         IF Truthy(arg)
         THEN /\ address' = [address EXCEPT ![p] = arg.value]
              /\ Goto(p, "validate")
         ELSE /\ Goto(p, "prompt")
              /\ UNCHANGED address
    /\ fs0' = [fs0 EXCEPT ![p] = fs]
    /\ UNCHANGED <<fs, chain, token_data, token_dir, mkstack, trace, calls, writes>>

\* address = input(...).strip(); if not address: print, return 1
Prompt(p) ==
    /\ pc[p] = "prompt"
    /\ \/ Finish(p, RaisedOutsideTry("EOFError"))
       \/ \E line \in TypedLines :
            LET a == Strip(line)
            IN  IF a = <<>>
                THEN Finish(p, Returned("Error: No address provided", 1))
                ELSE /\ address' = [address EXCEPT ![p] = a]
                     /\ Goto(p, "validate")
                     /\ UNCHANGED mkstack
    /\ UNCHANGED <<fs, chain, token_data, token_dir, trace, calls, writes, fs0>>

\* address = validate_address(address)
Validate(p) ==
    /\ pc[p] = "validate"
    /\ trace' = [trace EXCEPT ![p] = Append(@, "validate")]
    /\ LET r == validate_address(address[p])
       IN  IF r.ok
           THEN /\ address' = [address EXCEPT ![p] = r.value]
                /\ Goto(p, "connect")
                /\ UNCHANGED mkstack
           ELSE Finish(p, RaisedInTry(r.exc))
    /\ UNCHANGED <<fs, chain, token_data, token_dir, calls, writes, fs0>>

\* Mutant: the connection check is tried again when it fails.
Connect_Retries(p) ==
    /\ pc[p] = "connect"
    /\ trace' = [trace EXCEPT ![p] = Append(@, "connect")]
    /\ calls' = [calls EXCEPT ![p] = Append(@, "is_connected")]
    /\ \E up \in BOOLEAN :
         IF up \/ Len(trace[p]) > 1
         THEN Goto(p, "name") /\ UNCHANGED <<address, mkstack>>
         ELSE UNCHANGED <<pc, outcome, address, mkstack>>
    /\ UNCHANGED <<fs, chain, token_data, token_dir, writes, fs0>>

\* web3 = Web3(HTTPProvider(RPC_URL)); if not web3.is_connected(): return 1
Connect(p) ==
    /\ pc[p] = "connect"
    /\ trace' = [trace EXCEPT ![p] = Append(@, "connect")]
    /\ calls' = [calls EXCEPT ![p] = Append(@, "is_connected")]
    /\ \E up \in BOOLEAN :
         IF up
         THEN Goto(p, "name") /\ UNCHANGED <<address, mkstack>>
         ELSE Finish(p, Returned("Error: Failed to connect to the RPC", 1))
    /\ UNCHANGED <<fs, chain, token_data, token_dir, writes, fs0>>

\* One contract read of fetch_token_data: contract.functions.<field>().call();
\* any exception is re-raised as Exception("Failed to fetch token data").
ContractCall(p, field, next) ==
    /\ trace' = [trace EXCEPT ![p] = Append(@, field)]
    /\ calls' = [calls EXCEPT ![p] = Append(@, field)]
    /\ \E answered \in BOOLEAN :
         IF answered
         THEN /\ token_data' = [token_data EXCEPT ![p][field] = chain[field]]
              /\ Goto(p, next)
              /\ UNCHANGED <<address, mkstack>>
         ELSE /\ Finish(p, RaisedInTry("Exception"))
              /\ UNCHANGED token_data
    /\ UNCHANGED <<fs, chain, token_dir, writes, fs0>>

FetchName(p) == pc[p] = "name" /\ ContractCall(p, "name", "symbol")

FetchSymbol(p) == pc[p] = "symbol" /\ ContractCall(p, "symbol", "decimals")

\* The last read, then the return of the record with chainId and address.
FetchDecimals(p) ==
    /\ pc[p] = "decimals"
    /\ trace' = [trace EXCEPT ![p] = Append(@, "decimals")]
    /\ calls' = [calls EXCEPT ![p] = Append(@, "decimals")]
    /\ \E answered \in BOOLEAN :
         IF answered
         THEN /\ token_data' =
                   [token_data EXCEPT ![p] =
                      [chainId |-> CHAIN_ID, address |-> address[p],
                       name |-> @.name, symbol |-> @.symbol,
                       decimals |-> chain.decimals]]
              /\ Goto(p, "locate")
              /\ UNCHANGED <<address, mkstack>>
         ELSE /\ Finish(p, RaisedInTry("Exception"))
              /\ UNCHANGED token_data
    /\ UNCHANGED <<fs, chain, token_dir, writes, fs0>>

\* mainnet_dir = get_mainnet_directory()
get_mainnet_directory(p) ==
    /\ pc[p] = "locate"
    /\ trace' = [trace EXCEPT ![p] = Append(@, "locate")]
    /\ IF IsDir(fs, MainnetDir)
       THEN Goto(p, "create") /\ UNCHANGED <<address, mkstack>>
       ELSE Finish(p, RaisedInTry("FileNotFoundError"))
    /\ UNCHANGED <<fs, chain, token_data, token_dir, calls, writes, fs0>>

(* ------------------------ create_token_directory ----------------------- *)

\* Mutant: every mkdir is called with exist_ok=True.
MkdirCall_ExistOk(path, parents, exist_ok) ==
    [path |-> path, parents |-> parents, exist_ok |-> TRUE]

MkdirCall(path, parents, exist_ok) ==
    [path |-> path, parents |-> parents, exist_ok |-> exist_ok]

Pop(stack) == SubSeq(stack, 1, Len(stack) - 1)
Top(stack) == stack[Len(stack)]

\* Mutant: no existence check, and the directory may exist (exist_ok=True).
CheckExists_Overwrites(p) ==
    /\ pc[p] = "create"
    /\ trace' = [trace EXCEPT ![p] = Append(@, "exists")]
    /\ LET dir == JoinPath(MainnetDir, token_data[p].symbol)
       IN  /\ token_dir' = [token_dir EXCEPT ![p] = dir]
           /\ Goto(p, "mkdir")
           /\ mkstack' = [mkstack EXCEPT ![p] = <<[path |-> dir, parents |-> TRUE,
                                                   exist_ok |-> TRUE]>>]
           /\ UNCHANGED address
    /\ UNCHANGED <<fs, chain, token_data, calls, writes, fs0>>

\* Mutant: data.json is opened for writing before the existence check.
CheckExists_OpensFirst(p) ==
    /\ pc[p] = "create"
    /\ trace' = [trace EXCEPT ![p] = Append(@, "exists")]
    /\ LET dir == JoinPath(MainnetDir, token_data[p].symbol)
           r == OsOpenW(fs, Append(dir, <<"data.json">>))
       IN  /\ token_dir' = [token_dir EXCEPT ![p] = dir]
           /\ fs' = r.fs
           /\ writes' = [writes EXCEPT ![p] = @ \o r.made]
           /\ IF Exists(fs, dir)
              THEN Finish(p, RaisedInTry("FileExistsError"))
              ELSE /\ Goto(p, "mkdir")
                   /\ mkstack' = [mkstack EXCEPT ![p] = <<[path |-> dir, parents |-> TRUE,
                                                           exist_ok |-> FALSE]>>]
                   /\ UNCHANGED address
    /\ UNCHANGED <<chain, token_data, calls, fs0>>

\* token_dir = mainnet_dir / symbol; if token_dir.exists(): raise FileExistsError
CheckExists(p) ==
    /\ pc[p] = "create"
    /\ trace' = [trace EXCEPT ![p] = Append(@, "exists")]
    /\ LET dir == JoinPath(MainnetDir, token_data[p].symbol)
       IN  /\ token_dir' = [token_dir EXCEPT ![p] = dir]
           /\ IF Exists(fs, dir)
              THEN Finish(p, RaisedInTry("FileExistsError"))
              ELSE /\ Goto(p, "mkdir")
                   /\ mkstack' = [mkstack EXCEPT ![p] = <<MkdirCall(dir, TRUE, FALSE)>>]
                   /\ UNCHANGED address
    /\ UNCHANGED <<fs, chain, token_data, calls, writes, fs0>>

\* Path.mkdir has returned to its caller: the next pending call, or line 132.
MkdirReturn(p) ==
    /\ mkstack' = [mkstack EXCEPT ![p] = Pop(@)]
    /\ Goto(p, IF Len(mkstack[p]) = 1 THEN "open" ELSE "mkdir")
    /\ UNCHANGED address

\* token_dir.mkdir(parents=True, exist_ok=False): Path.mkdir tries os.mkdir;
\* on FileNotFoundError with parents it makes the parent (parents=True,
\* exist_ok=True) and then itself again with parents=False; on another
\* OSError it raises unless exist_ok and the path is a directory.  One
\* step is the os.mkdir call of the innermost pending Path.mkdir.
MkdirStep(p) ==
    /\ pc[p] = "mkdir"
    /\ LET call == Top(mkstack[p])
           r == OsMkdir(fs, call.path)
       IN  CASE r.err = "none" ->
                  /\ fs' = r.fs
                  /\ writes' = [writes EXCEPT ![p] = @ \o r.made]
                  /\ MkdirReturn(p)
             [] r.err = "ENOENT" ->
                  /\ IF ~call.parents \/ Parent(call.path) = call.path
                     THEN Finish(p, RaisedInTry("FileNotFoundError"))
                     ELSE /\ mkstack' =
                               [mkstack EXCEPT ![p] =
                                  Pop(@) \o <<MkdirCall(call.path, FALSE, call.exist_ok),
                                              MkdirCall(Parent(call.path), TRUE, TRUE)>>]
                          /\ UNCHANGED <<pc, outcome, address>>
                  /\ UNCHANGED <<fs, writes>>
             [] OTHER ->
                  /\ IF ~call.exist_ok \/ ~IsDir(fs, call.path)
                     THEN Finish(p, RaisedInTry(ErrnoException(r.err)))
                     ELSE MkdirReturn(p)
                  /\ UNCHANGED <<fs, writes>>
    /\ trace' = [trace EXCEPT ![p] =
                   IF Top(@) = "mkdir" THEN @ ELSE Append(@, "mkdir")]
    /\ UNCHANGED <<chain, token_data, token_dir, calls, fs0>>

\* data_file = token_dir / "data.json"
DataFile(p) == Append(token_dir[p], DataFileName)

\* The canonical path of the file the open handle refers to.
OpenedFile(p) == Resolve(fs, <<>>, DataFile(p)).path

\* with data_file.open("w", encoding="utf-8") as f:  (the device may refuse)
OpenFile(p) ==
    /\ pc[p] = "open"
    /\ trace' = [trace EXCEPT ![p] = Append(@, "open")]
    /\ \E refused \in BOOLEAN :
         LET r == OsOpenW(fs, DataFile(p))
         IN  IF refused \/ r.err # "none"
             THEN /\ Finish(p, RaisedInTry(IF refused THEN "OSError"
                                           ELSE ErrnoException(r.err)))
                  /\ UNCHANGED <<fs, writes>>
             ELSE /\ fs' = r.fs
                  /\ writes' = [writes EXCEPT ![p] = @ \o r.made]
                  /\ Goto(p, "dump")
                  /\ UNCHANGED <<address, mkstack>>
    /\ UNCHANGED <<chain, token_data, token_dir, calls, fs0>>

\* json.dump(token_data, f, indent=2, ensure_ascii=False)
Dump(p) ==
    /\ pc[p] = "dump"
    /\ trace' = [trace EXCEPT ![p] = Append(@, "dump")]
    /\ \E refused \in BOOLEAN :
         IF refused
         THEN /\ Finish(p, RaisedInTry("OSError"))
              /\ UNCHANGED <<fs, writes>>
         ELSE /\ fs' = OsWrite(fs, OpenedFile(p),
                               [body |-> <<token_data[p]>>, nl |-> FALSE])
              /\ writes' = [writes EXCEPT ![p] =
                              Append(@, [op |-> "write", path |-> OpenedFile(p)])]
              /\ Goto(p, "newline")
              /\ UNCHANGED <<address, mkstack>>
    /\ UNCHANGED <<chain, token_data, token_dir, calls, fs0>>

\* f.write("\n"); the file is closed; main prints the success text, return 0
WriteNewline(p) ==
    /\ pc[p] = "newline"
    /\ trace' = [trace EXCEPT ![p] = Append(@, "newline")]
    /\ \E refused \in BOOLEAN :
         IF refused
         THEN /\ Finish(p, RaisedInTry("OSError"))
              /\ UNCHANGED <<fs, writes>>
         ELSE /\ fs' = OsWrite(fs, OpenedFile(p),
                               [fs.files[OpenedFile(p)] EXCEPT !.nl = TRUE])
              /\ writes' = [writes EXCEPT ![p] =
                              Append(@, [op |-> "write", path |-> OpenedFile(p)])]
              /\ Finish(p, Returned("Token successfully added!", 0))
    /\ UNCHANGED <<chain, token_data, token_dir, calls, fs0>>

(* --------------------------- specifications ---------------------------- *)

\* Successive invocations: the second is started when the first has ended.
Start(p) ==
    /\ p = "p1" \/ pc["p1"] = "done"
    /\ ParseArgs(p)

Next ==
    \E p \in Procs :
       \/ Start(p)
       \/ Prompt(p)
       \/ Validate(p)
       \/ Connect(p)
       \/ FetchName(p)
       \/ FetchSymbol(p)
       \/ FetchDecimals(p)
       \/ get_mainnet_directory(p)
       \/ CheckExists(p)
       \/ MkdirStep(p)
       \/ OpenFile(p)
       \/ Dump(p)
       \/ WriteNewline(p)

Spec == Init /\ [][Next]_vars

(* Two invocations racing: both were started with the same address and   *)
(* have validated it; from there their RPC requests and file-system calls  *)
(* interleave in any order.                                                *)

ValidAddresses == {validate_address(a).value : a \in {r \in RawAddresses : IsAddress(r)}}

InitRace ==
    /\ fs \in InitialFileSystems
    /\ chain \in [name : {TokenName}, symbol : Symbols, decimals : TokenDecimals]
    /\ pc = [p \in Procs |-> "connect"]
    /\ address \in {[p \in Procs |-> a] : a \in ValidAddresses}
    /\ token_data = [p \in Procs |-> NoData]
    /\ token_dir = [p \in Procs |-> <<>>]
    /\ mkstack = [p \in Procs |-> <<>>]
    /\ outcome = [p \in Procs |-> Running]
    /\ trace = [p \in Procs |-> <<"validate">>]
    /\ calls = [p \in Procs |-> <<>>]
    /\ writes = [p \in Procs |-> <<>>]
    /\ fs0 = [p \in Procs |-> fs]

NextRace ==
    \E p \in Procs :
       \/ Connect(p)
       \/ FetchName(p)
       \/ FetchSymbol(p)
       \/ FetchDecimals(p)
       \/ get_mainnet_directory(p)
       \/ CheckExists(p)
       \/ MkdirStep(p)
       \/ OpenFile(p)
       \/ Dump(p)
       \/ WriteNewline(p)

SpecRace == InitRace /\ [][NextRace]_vars

(* ------------------------------ properties ----------------------------- *)

Done(p) == pc[p] = "done"
Exit(p) == outcome[p].exit
Succeeded(p) == Done(p) /\ Exit(p) = 0

\* The steps of a run, in program order; the last five make up "create entry".
StepOrder ==
    <<"validate", "connect", "name", "symbol", "decimals", "locate",
      "exists", "mkdir", "open", "dump", "newline">>

IsPrefix(s, t) == Len(s) <= Len(t) /\ s = SubSeq(t, 1, Len(s))

\* The step a finished run ended in.
LastStep(p) == IF trace[p] = <<>> THEN "none" ELSE Top(trace[p])

ReachedCreate(p) == Len(trace[p]) >= 7

Ops(p, kinds) == {i \in DOMAIN writes[p] : writes[p][i].op \in kinds}

FullContent(p) == [body |-> <<token_data[p]>>, nl |-> TRUE]

\* This run created data.json and the file holds the whole record.
DataWritten(p) ==
    \E i \in Ops(p, {"create", "truncate"}) :
       /\ IsFileNode(fs, writes[p][i].path)
       /\ fs.files[writes[p][i].path] = FullContent(p)

\* The registry root held an entry named as the symbol when the run started.
RegisteredBefore(p) == NodeExists(fs0[p], Append(MainnetDir, token_data[p].symbol))

RefusedAsExisting(p) ==
    /\ outcome[p].exc = "FileExistsError"
    /\ outcome[p].handler = "except FileExistsError"
    /\ outcome[p].status = "returned"
    /\ Exit(p) = 1

\* C1: when the registry root already holds an entry named as the fetched
\* symbol, the run is refused with FileExistsError, exits 1 and changes
\* nothing; a second run after a successful one (same address, same node
\* answers) is refused the same way and leaves the first run's data.json as
\* it was written.
C1_ExistingEntryRefused ==
    /\ \A p \in Procs :
         (Done(p) /\ ReachedCreate(p) /\ RegisteredBefore(p))
            => (RefusedAsExisting(p) /\ writes[p] = <<>>)
    /\ (Succeeded("p1") /\ Done("p2") /\ ReachedCreate("p2"))
         => /\ RefusedAsExisting("p2")
            /\ writes["p2"] = <<>>
            /\ fs = fs0["p2"]
            /\ DataWritten("p1")

C1_Witness ==
    /\ Succeeded("p1")
    /\ Done("p2")
    /\ outcome["p2"].exc = "FileExistsError"
    /\ token_data["p2"] = token_data["p1"]

WrongLength(s) == Len(Remove0xPrefix(s)) # AddrLen
NonHexCharacters(s) == ~AllHex(Remove0xPrefix(s))
MissingPrefix(s) == ~Is0xPrefixed(s)

\* Invocation p executes its validation step.
Validates(p) == pc[p] = "validate" /\ pc'[p] # "validate"

RejectedBeforeNetwork(p) ==
    /\ pc'[p] = "done"
    /\ outcome'[p].exc = "ValueError"
    /\ outcome'[p].handler = "except ValueError"
    /\ calls'[p] = <<>>

\* C3 as stated: validating a string of wrong length, with non-hex
\* characters or without the prefix ends the run with ValueError before any
\* network call.
C3_Original ==
    [][\A p \in Procs :
         (Validates(p) /\ (WrongLength(address[p]) \/ NonHexCharacters(address[p])
                             \/ MissingPrefix(address[p])))
            => RejectedBeforeNetwork(p)]_vars

\* C3 amended: validating a string of wrong length or with non-hex
\* characters ends the run with ValueError before any network call, and so
\* does every string that is_address rejects; a string of AddrLen hex
\* digits in one case without the prefix is accepted.
C3_InvalidRejectedBeforeNetwork ==
    [][\A p \in Procs :
         /\ (Validates(p) /\ (WrongLength(address[p]) \/ NonHexCharacters(address[p])))
              => RejectedBeforeNetwork(p)
         /\ (Validates(p) /\ ~IsAddress(address[p])) => RejectedBeforeNetwork(p)
         /\ (Validates(p) /\ MissingPrefix(address[p]) /\ ~WrongLength(address[p])
               /\ ~NonHexCharacters(address[p]) /\ ~IsChecksumFormatted(address[p]))
              => (pc'[p] = "connect" /\ address'[p] = ToChecksumAddress(address[p]))]_vars

C3_Witness ==
    \E p \in Procs :
       Done(p) /\ outcome[p].exc = "ValueError" /\ calls[p] = <<>>
               /\ trace[p] = <<"validate">>

StepsBeforeWrite ==
    {"validate", "connect", "name", "symbol", "decimals", "locate", "exists"}

\* No invocation has been started after p's.
Latest(p) == p = "p2" \/ pc["p2"] = "start"

\* C4: a run that fails in validation, the connection check, a metadata
\* call, the registry lookup or the already-exists check has created no
\* directory and no file; an unreachable endpoint gives exit 1 and no
\* directory.
C4_FailureLeavesFilesystem ==
    \A p \in Procs :
       /\ (Done(p) /\ Exit(p) # 0 /\ LastStep(p) \in StepsBeforeWrite)
            => (writes[p] = <<>> /\ (Latest(p) => fs = fs0[p]))
       /\ (Done(p) /\ outcome[p].printed = "Error: Failed to connect to the RPC")
            => (Exit(p) = 1 /\ writes[p] = <<>> /\ (Latest(p) => fs.dirs = fs0[p].dirs))

C4_Witness ==
    \E p \in Procs :
       /\ Done(p)
       /\ LastStep(p) = "exists"
       /\ outcome[p].exc = "FileExistsError"
       /\ fs = fs0[p]

\* C5 as stated: no exception leaves main: every finished run has returned
\* from main, with a message printed and a nonzero code after an error.
C5_NoUnhandledError ==
    \A p \in Procs :
       Done(p) =>
          /\ outcome[p].status = "returned"
          /\ outcome[p].exc # "none" => (outcome[p].handler # "none" /\ Exit(p) # 0)

\* C6 as stated: a successful run has created exactly one directory and
\* exactly one file and changed nothing else.
C6_OneDirectoryOneFile ==
    \A p \in Procs :
       Succeeded(p) =>
          /\ Cardinality(Ops(p, {"mkdir"})) = 1
          /\ Cardinality(Ops(p, {"create"})) = 1
          /\ Ops(p, {"truncate"}) = {}

\* C7 as stated: nothing is created outside the registry root, and the
\* directory of a successful run is the root's child named as the symbol.
C7_DirectChildOfRoot ==
    \A p \in Procs :
       /\ \A i \in DOMAIN writes[p] :
            /\ Len(writes[p][i].path) > Len(MainnetDir)
            /\ IsPrefix(MainnetDir, writes[p][i].path)
       /\ Succeeded(p) =>
            \E i \in Ops(p, {"mkdir"}) :
               writes[p][i].path = Append(MainnetDir, token_data[p].symbol)

\* C8: a record is persisted only for a non-empty symbol whose directory
\* did not exist when the run started; with an empty symbol, or a symbol
\* whose directory exists, create_token_directory writes nothing and the
\* run fails.
C8_SymbolNonEmptyAndNew ==
    \A p \in Procs :
       /\ (\E i \in DOMAIN writes[p] : writes[p][i].op \in {"create", "truncate", "write"})
            => /\ token_data[p].symbol # <<>>
               /\ ~Exists(fs0[p], JoinPath(MainnetDir, token_data[p].symbol))
       /\ (Done(p) /\ ReachedCreate(p)
             /\ (token_data[p].symbol = <<>>
                   \/ Exists(fs0[p], JoinPath(MainnetDir, token_data[p].symbol))))
            => (Exit(p) = 1 /\ writes[p] = <<>> /\ LastStep(p) = "exists")

C8_Witness ==
    \E p \in Procs :
       /\ Done(p)
       /\ ReachedCreate(p)
       /\ token_data[p].symbol = <<>>
       /\ outcome[p].exc = "FileExistsError"
       /\ writes[p] = <<>>

\* The labels of main's steps; "create" is the entry of create_token_directory.
StepLabels ==
    {"validate", "connect", "name", "symbol", "decimals", "locate", "create",
     "mkdir", "open", "dump", "newline"}
StepOfLabel(l) == IF l = "create" THEN "exists" ELSE l
StepIndex(st) == CHOOSE i \in DOMAIN StepOrder : StepOrder[i] = st

\* The RPC requests a run has sent when it has begun the steps in t.
CallsOf(t) ==
    SelectSeq(t, LAMBDA st : st \in {"connect", "name", "symbol", "decimals"})

ForwardPass(p) ==
    /\ IsPrefix(trace[p], StepOrder)
    /\ Len(calls[p]) = Len(CallsOf(trace[p]))
    /\ (pc[p] \in StepLabels)
         => \/ Len(trace[p]) = StepIndex(StepOfLabel(pc[p])) - 1
            \/ pc[p] = "mkdir" /\ LastStep(p) = "mkdir"
    /\ (Done(p) /\ Exit(p) = 0) => trace[p] = StepOrder
    /\ (Done(p) /\ outcome[p].exc = "FileNotFoundError" /\ LastStep(p) = "locate")
         => calls[p] = <<"is_connected", "name", "symbol", "decimals">>

\* A finished run begins no further step, and a step is begun only by a
\* run that has not failed.
StopsAtFailure(p) ==
    /\ Done(p) => (pc'[p] = "done" /\ trace'[p] = trace[p] /\ calls'[p] = calls[p]
                     /\ outcome'[p] = outcome[p])
    /\ trace'[p] # trace[p] => (outcome[p] = Running /\ Len(trace'[p]) = Len(trace[p]) + 1)

\* C9: the steps of a run are begun in the order validate, connect, name,
\* symbol, decimals, locate, create, each at most once and only when every
\* earlier step has succeeded; the step that fails ends the run, no later
\* step is begun; the registry root is looked up only after the three
\* metadata calls.
C9_SingleForwardPass ==
    /\ [](\A p \in Procs : ForwardPass(p))
    /\ [][\A p \in Procs : StopsAtFailure(p)]_vars

C9_Witness ==
    \E p \in Procs :
       /\ Done(p)
       /\ outcome[p].exc = "FileNotFoundError"
       /\ LastStep(p) = "locate"
       /\ Len(calls[p]) = 4

CreatedTokenDir(p) ==
    \E i \in Ops(p, {"mkdir"}) :
       writes[p][i].path = Resolve(fs, <<>>, token_dir[p]).path

\* C10: of two racing invocations for the same symbol at most one creates
\* the token directory and opens data.json; the other one, once finished
\* after reaching create, has failed with FileExistsError and exit 1 and
\* has never written to or truncated a file.
C10_FirstWriterWins ==
    \A p, q \in Procs :
       (p # q /\ token_data[p].symbol = token_data[q].symbol) =>
          /\ ~(CreatedTokenDir(p) /\ CreatedTokenDir(q))
          /\ ~(Ops(p, {"create", "truncate"}) # {} /\ Ops(q, {"create", "truncate"}) # {})
          /\ Ops(q, {"truncate"}) = {}
          /\ (CreatedTokenDir(p) /\ Done(q) /\ ReachedCreate(q))
               => (RefusedAsExisting(q) /\ Ops(q, {"create", "truncate", "write"}) = {})

C10_Witness ==
    \E p, q \in Procs :
       /\ p # q
       /\ CreatedTokenDir(p)
       /\ Done(q)
       /\ LastStep(q) = "mkdir"
       /\ outcome[q].exc = "FileExistsError"

====
